---- MODULE Spec2Model ----
(***************************************************************************)
(* Model of src/src/builder/commands/docker.rs (vagga, DockerImage step).  *)
(*                                                                         *)
(* Several specifications share the module:                                *)
(*   SpecParse      parse_image on a bounded set of scalars                *)
(*   SpecBuild      DockerImage::build resolving the insecure flag         *)
(*   SpecTar        TarCmd::unpack driving whiteout_entry_handler          *)
(*   Spec           download_and_unpack_image with download_blob, the      *)
(*                  per-blob lock, the permit semaphore and the unpack     *)
(*                  worker                                                 *)
(*   SpecLive       Spec with every ready task eventually run              *)
(*   SpecCache      download_blob called by several processes that share   *)
(*                  the cache directory                                    *)
(*   SpecCacheLive  SpecCache with every process eventually run            *)
(***************************************************************************)
EXTENDS Integers, Sequences, FiniteSets, TLC

VARIABLES
    \* ---- parse_image ----
    value,      \* the scalar handed to parse_image (a sequence of tokens)
    map,        \* the BTreeMap parse_image returned, or NotParsed
    \* ---- DockerImage::build ----
    self_registry,              \* self.registry (a sequence of tokens)
    self_insecure,              \* self.insecure: {} when unset, {b} when set to b
    docker_insecure_registries, \* settings.docker_insecure_registries
    insecure,                   \* the local `insecure`: {} before line 128, {b} after
    consulted,                  \* is_insecure_registry was called
    https,                      \* "pending", "ensured" (capsule::Https) or "skipped"
    \* ---- TarCmd::unpack + whiteout_entry_handler ----
    fs,         \* destination tree: path -> kind
    before,     \* destination tree as it was before the last entry
    entry,      \* the last tar entry processed, or NoEntry
    handled,    \* what whiteout_entry_handler returned for it
    tarStatus,  \* "running", "failed" or "done"
    \* ---- download_and_unpack_image, download_blob ----
    manifest,     \* layers_digests: layer index -> digest
    extDigest,    \* the digest each caller of another process asks for
    pc,           \* position of every download_blob caller
    blobRes,      \* what download_blob returned to each caller
    result,       \* what each download task of the pipeline returned
    permits,      \* free permits of layers_download_semaphore
    lockHolder,   \* blob file name -> holder of .<name>.lock
    tmp,          \* blob file name -> content of .<name>.tmp, or Absent
    final,        \* blob file name -> content of <name>, or Absent
    got,          \* caller -> chunks taken from its blob stream
    pend,         \* caller -> write its tokio File has in flight (0 none, -1 failed)
    faults,       \* I/O and network errors injected so far
    chan,         \* layer -> state of its oneshot channel
    upos,         \* index of the channel the unpack worker is at
    ust,          \* "await", "unpacking" or "done"
    ures,         \* the unpack worker's result
    cpc,          \* coordinator: "join_downloads", "join_unpack", "returned"
    layers_errors,\* the coordinator's accumulated download errors
    ret,          \* what download_and_unpack_image returned
    \* ---- history, read only by the properties ----
    hits,         \* callers whose first stat found the final path
    locked,       \* callers that acquired the per-blob lock
    opened,       \* callers that called get_blob_stream
    startedSet,   \* layers whose extraction began
    unpacked,     \* the layers handed to unpack_layer, in the order of the calls
    completedSet, \* layers whose extraction completed
    sentEarly     \* layers handed off while an earlier layer was still downloading

parseVars == <<value, map>>
buildVars == <<self_registry, self_insecure, docker_insecure_registries, insecure, consulted, https>>
tarVars == <<fs, before, entry, handled, tarStatus>>
cacheVars == <<pc, blobRes, result, lockHolder, tmp, final, got, pend, faults>>
pipeVars == <<manifest, extDigest, permits, chan, upos, ust, ures, cpc, layers_errors, ret>>
histVars == <<hits, locked, opened, startedSet, unpacked, completedSet, sentEarly>>

----------------------------------------------------------------------------
(* Strings are sequences of tokens: the separators the code looks for and  *)
(* the words between them.                                                 *)

Alphabet == {"localhost", "a", ".", ":", "/"}

MaxScalarLen == 7

Scalars == UNION {[1..n -> Alphabet] : n \in 0..MaxScalarLen}

DEFAULT_IMAGE_NAMESPACE == <<"library">>

NotParsed == [unset |-> TRUE]

Contains(s, c) == \E i \in 1..Len(s) : s[i] = c

\* str::split_once(c): split at the FIRST occurrence of c
SplitOnce(s, c) ==
    IF Contains(s, c)
    THEN LET i == CHOOSE k \in 1..Len(s) :
                      s[k] = c /\ \A j \in 1..(k-1) : s[j] # c
         IN [found |-> TRUE, left |-> SubSeq(s, 1, i-1), right |-> SubSeq(s, i+1, Len(s))]
    ELSE [found |-> FALSE, left |-> <<>>, right |-> <<>>]

\* str::rsplit_once(c): split at the LAST occurrence of c
RSplitOnce(s, c) ==
    IF Contains(s, c)
    THEN LET i == CHOOSE k \in 1..Len(s) :
                      s[k] = c /\ \A j \in (k+1)..Len(s) : s[j] # c
         IN [found |-> TRUE, left |-> SubSeq(s, 1, i-1), right |-> SubSeq(s, i+1, Len(s))]
    ELSE [found |-> FALSE, left |-> <<>>, right |-> <<>>]

IsRegistryHost_NoLocalhost(registry) ==
    Contains(registry, ".") \/ Contains(registry, ":")

\* line 71: registry == "localhost" || registry.contains('.' or ':')
IsRegistryHost(registry) ==
    registry = <<"localhost">> \/ Contains(registry, ".") \/ Contains(registry, ":")

NeedsNamespace_IgnoreRegistry(image, hasRegistry) == ~Contains(image, "/")

\* line 94: !image.contains('/') && registry.is_none()
NeedsNamespace(image, hasRegistry) == ~Contains(image, "/") /\ ~hasRegistry

parse_image(v) ==
    LET sp       == SplitOnce(v, "/")
        isReg    == sp.found /\ IsRegistryHost(sp.left)
        image1   == IF isReg THEN sp.right ELSE v
        ts       == RSplitOnce(image1, ":")
        image2   == IF ts.found THEN ts.left ELSE image1
        image3   == IF NeedsNamespace(image2, isReg)
                    THEN DEFAULT_IMAGE_NAMESPACE \o <<"/">> \o image2
                    ELSE image2
        regPart  == IF isReg THEN [k \in {"registry"} |-> sp.left] ELSE <<>>
        tagPart  == IF ts.found THEN [k \in {"tag"} |-> ts.right] ELSE <<>>
    IN  [k \in {"image"} |-> image3] @@ tagPart @@ regPart

----------------------------------------------------------------------------
(* DockerImage::build: the insecure flag.                                  *)

\* registry strings of the step: host, host:port, IPv6 literal with and
\* without port
Registries ==
    { <<"example.com">>,
      <<"example.com", ":", "5000">>,
      <<"localhost", ":", "5000">>,
      <<"[", ":", ":", "1", "]">>,
      <<"[", ":", ":", "1", "]", ":", "5000">> }

\* entries the settings may list as insecure
InsecureEntries == { <<"example.com">>, <<"localhost">>, <<"[", ":", ":", "1", "]">> }

\* lines 156-164
is_insecure_registry(registry, insecure_registries) ==
    LET sp            == SplitOnce(registry, ":")
        registry_host == IF sp.found THEN sp.left ELSE registry
    IN  registry_host \in insecure_registries

\* Option::unwrap_or_else
unwrap_or_else(opt, default) == IF opt = {} THEN default ELSE CHOOSE b \in opt : TRUE

----------------------------------------------------------------------------
(* Destination tree and tar entries.  A file name is a sequence of tokens  *)
(* so that strip_prefix(".wh.") is a real operation; a path is a sequence  *)
(* of file names.                                                          *)

WH == ".wh."

NameA == <<"a">>
NameX == <<"x">>
NameY == <<"y">>
NameC == <<"c">>
NameOpq == <<".opq">>
NameWhA == <<WH, "a">>
NameWhX == <<WH, "x">>
NameWhOpq == <<WH, ".opq">>
NameWhWhOpq == <<WH, WH, ".opq">>

DirNames == {NameX, NameY, NameOpq, NameWhX, NameWhOpq, NameWhWhOpq}

Paths ==
    {<<NameA>>, <<NameWhA>>, <<NameA, NameX, NameC>>}
        \cup {<<NameA, n>> : n \in DirNames}

EntryTypes == {"Regular", "Directory", "Symlink"}

\* the entries an archive may hold: every entry type on the whiteout target
\* and on its marker, regular and non-regular entries carrying marker names
Entries ==
    [path : {<<NameA, NameX>>, <<NameA, NameWhX>>}, type : EntryTypes]
        \cup [path : {<<NameA, NameWhOpq>>, <<NameA, NameWhWhOpq>>},
                type : {"Regular", "Directory"}]
        \cup [path : {<<NameA, NameY>>, <<NameA, NameOpq>>, <<NameWhA>>,
                      <<NameA, NameX, NameC>>},
                type : {"Regular"}]
        \cup {[path |-> <<NameA>>, type |-> "Directory"]}

NoEntry == [path |-> <<>>, type |-> "None"]

EmptyTree == [p \in Paths |-> "absent"]

Kind(f, p) == IF p \in DOMAIN f THEN f[p] ELSE IF p = <<>> THEN "dir" ELSE "absent"

Parent(p) == SubSeq(p, 1, Len(p) - 1)

FileNameOf(p) == p[Len(p)]

IsPrefix(p, q) == Len(p) <= Len(q) /\ SubSeq(q, 1, Len(p)) = p

\* Path::is_dir follows symbolic links; linkIsDir is what the link resolves to
is_dir(f, p, linkIsDir) ==
    Kind(f, p) = "dir" \/ (Kind(f, p) = "symlink" /\ linkIsDir)

\* std::fs::remove_dir_all: a symlink is unlinked, a directory removed with its contents
remove_dir_all(f, p) ==
    [ok |-> TRUE, fs |-> [q \in Paths |-> IF IsPrefix(p, q) THEN "absent" ELSE f[q]]]

\* std::fs::remove_file: NotFound when the path does not exist
remove_file(f, p) ==
    IF Kind(f, p) \in {"file", "symlink"}
    THEN [ok |-> TRUE, fs |-> [q \in Paths |-> IF q = p THEN "absent" ELSE f[q]]]
    ELSE [ok |-> FALSE, fs |-> f]

\* container::util::clean_dir(dir, false): delete everything below dir, keep dir
clean_dir(f, dir) ==
    [q \in Paths |-> IF IsPrefix(dir, q) /\ q # dir THEN "absent" ELSE f[q]]

IsOpaqueMarker_Unstripped(whiteout) == whiteout = <<".opq">>

\* line 185: whiteout == ".wh..opq", whiteout being the name with ".wh." stripped
IsOpaqueMarker(whiteout) == whiteout = <<WH, ".opq">>

\* line 179: entry.header().entry_type() == EntryType::Regular
IsRegularEntry(e) == e.type = "Regular"

HasWhiteoutPrefix_OpaqueOnly(file_name) == file_name = NameWhWhOpq

\* line 183: file_name.strip_prefix(".wh.") is Some
HasWhiteoutPrefix(file_name) == Head(file_name) = WH

RemoveWhiteoutTarget_KeepDirs(f, whiteout_path, linkIsDir) ==
    remove_file(f, whiteout_path)

\* lines 189-197
RemoveWhiteoutTarget(f, whiteout_path, linkIsDir) ==
    IF is_dir(f, whiteout_path, linkIsDir)
    THEN remove_dir_all(f, whiteout_path)
    ELSE remove_file(f, whiteout_path)

\* lines 170-203; the result is Ok(false), Ok(true) or Err
whiteout_entry_handler(e, f, linkIsDir) ==
    LET file_name == FileNameOf(e.path) IN
    IF ~IsRegularEntry(e) THEN [res |-> "Ok(false)", fs |-> f]
    ELSE IF HasWhiteoutPrefix(file_name)
    THEN LET whiteout == Tail(file_name)
             dir      == Parent(e.path)
         IN  IF IsOpaqueMarker(whiteout)
             THEN [res |-> "Ok(true)", fs |-> clean_dir(f, dir)]
             ELSE LET r == RemoveWhiteoutTarget(f, dir \o <<whiteout>>, linkIsDir)
                  IN  [res |-> IF r.ok THEN "Ok(true)" ELSE "Err", fs |-> r.fs]
    ELSE [res |-> "Ok(false)", fs |-> f]

KindOfType(t) ==
    CASE t = "Regular" -> "file" [] t = "Directory" -> "dir" [] OTHER -> "symlink"

Ancestors(p) == {SubSeq(p, 1, n) : n \in 1..(Len(p) - 1)}

\* the extractor's ordinary handling of an entry the handler did not consume
UnpackNormally(e, f) ==
    IF \E q \in Ancestors(e.path) : Kind(f, q) \in {"file", "symlink"}
    THEN [ok |-> FALSE, fs |-> f]
    ELSE IF Kind(f, e.path) = "dir" /\ e.type # "Directory"
    THEN [ok |-> FALSE, fs |-> f]
    ELSE IF Kind(f, e.path) \in {"file", "symlink"} /\ e.type = "Directory"
    THEN [ok |-> FALSE, fs |-> f]
    ELSE [ok |-> TRUE,
          fs |-> [q \in Paths |->
                    IF q = e.path THEN KindOfType(e.type)
                    ELSE IF q \in Ancestors(e.path) THEN "dir"
                    ELSE f[q]]]

----------------------------------------------------------------------------
(* download_and_unpack_image and download_blob.                            *)

DOCKER_LAYERS_DOWNLOAD_CONCURRENCY == 2

NumLayers == 3      \* layers of the manifest
NumChunks == 2      \* chunks of every blob stream
MaxFaults == 2      \* errors the environment injects in one run

NumProcs == 2       \* other processes calling download_blob on the shared cache

Layers == 1..NumLayers
External == (NumLayers + 1)..(NumLayers + NumProcs)
Callers == Layers \cup External

Digests == {<<"sha256", ":", "h1">>, <<"sha256", ":", "h2">>}

Chunks == 1..NumChunks

Absent == [exists |-> FALSE, data |-> {}]      \* no such file
File(chunks) == [exists |-> TRUE, data |-> chunks]
None == -1                                      \* no holder
NoResult == [ok |-> FALSE, err |-> "pending"]

Ok(path) == [ok |-> TRUE, path |-> path]
Err(e) == [ok |-> FALSE, err |-> e]

DigestOf(t) == IF t \in Layers THEN manifest[t] ELSE extDigest[t]

\* lines 327-329, 333: the blob file name is derived from the part after ':'
BlobFileName(layer_digest) == SplitOnce(layer_digest, ":").right \o <<".tar.gz">>

BlobNames == {BlobFileName(d) : d \in Digests}

NameOf(t) == BlobFileName(DigestOf(t))

\* line 334: layers_cache.join(&blob_file_name)
BlobPath(layer_digest) == <<"/vagga/cache/docker-layers">> \o BlobFileName(layer_digest)

StatFirst_NotFound(n) == FALSE

\* line 335: symlink_metadata(&blob_path) is Ok
StatFirst(n) == final[n].exists

StatLocked_NotFound(n) == FALSE

\* line 348: symlink_metadata(&blob_path) is Ok, under the lock
StatLocked(n) == final[n].exists

\* Lock::exclusive_wait returns once no one else holds the lock
LockFree(n) == lockHolder[n] = None

\* the receiver of layer i's channel is alive until the unpack worker returns
ReceiverAlive(i) == ust # "done"

AwaitedSlot_AnyReady ==
    IF \E i \in Layers : chan[i] = "sent" /\ i \notin startedSet
    THEN CHOOSE i \in Layers : chan[i] = "sent" /\ i \notin startedSet
    ELSE IF upos > NumLayers THEN NumLayers ELSE upos

\* line 253: for ch in unpack_channels, in the order the channels were pushed
AwaitedSlot == upos

\* the end of a caller's task: download_blob returned `res`; the lock guard is
\* dropped (line 370 or a `?` return), then lines 236-243: the handoff is sent
\* on Ok, and the permit guard is dropped
ReleaseLock_OnSuccessOnly(t, res) ==
    [n \in BlobNames |-> IF lockHolder[n] = t /\ res.ok THEN None ELSE lockHolder[n]]

\* lines 344-370: _lock lives to the end of the NotFound arm and is dropped
\* on every way out of it, `?` returns included; dropping a Lock releases it
ReleaseLock(t, res) ==
    [n \in BlobNames |-> IF lockHolder[n] = t THEN None ELSE lockHolder[n]]

PermitsAfterExit_Leaked == permits

\* lines 233, 244: _guard is dropped when the task's block ends
PermitsAfterExit == permits + 1

SendsHandoff_Always(t, res) == ReceiverAlive(t)

\* lines 236-237: tx.send is called only with the path download_blob returned
\* and succeeds only while the receiver exists
SendsHandoff(t, res) == res.ok /\ ReceiverAlive(t)

Exit(t, res) ==
    LET sendOk == SendsHandoff(t, res) IN
    /\ pc' = [pc EXCEPT ![t] = "done"]
    /\ blobRes' = [blobRes EXCEPT ![t] = res]
    /\ lockHolder' = ReleaseLock(t, res)
    /\ IF t \in Layers
       THEN /\ permits' = PermitsAfterExit
            /\ chan' = [chan EXCEPT ![t] = IF sendOk THEN "sent" ELSE "closed"]
            /\ result' = [result EXCEPT ![t] =
                            IF res.ok /\ ~sendOk
                            THEN Err("Error sending downloaded layer")
                            ELSE res]
            /\ sentEarly' = IF sendOk /\ \E j \in 1..(t-1) : chan[j] = "open"
                            THEN sentEarly \cup {t} ELSE sentEarly
       ELSE UNCHANGED <<result, permits, chan, sentEarly>>

\* an injected error ends the call with Err(e)
Fail(t, e) ==
    /\ faults < MaxFaults
    /\ faults' = faults + 1
    /\ Exit(t, Err(e))

PermitAvailable_Always == TRUE

\* line 233: sem.acquire() completes only when a permit is free
PermitAvailable == permits > 0

\* line 233: sem.acquire().await
Acquire(t) ==
    /\ t \in Layers /\ pc[t] = "acquire"
    /\ PermitAvailable
    /\ permits' = permits - 1
    /\ pc' = [pc EXCEPT ![t] = "stat"]
    /\ UNCHANGED <<blobRes, result, lockHolder, tmp, final, got, pend, faults, chan, histVars>>

\* lines 335-337: first stat of the final path
Stat(t) ==
    /\ pc[t] = "stat"
    /\ hits' = IF final[NameOf(t)].exists THEN hits \cup {t} ELSE hits
    /\ pc' = [pc EXCEPT ![t] = IF StatFirst(NameOf(t)) THEN "ret" ELSE "lock"]
    /\ UNCHANGED <<blobRes, result, lockHolder, tmp, final, got, pend, faults, permits, chan,
                   locked, opened, startedSet, unpacked, completedSet, sentEarly>>

\* line 371: the stat failed with something other than NotFound
StatError(t) ==
    /\ pc[t] = "stat"
    /\ Fail(t, "stat")
    /\ UNCHANGED <<tmp, final, got, pend, hits, locked, opened, startedSet, unpacked, completedSet>>

\* line 330: &digest[..12] panics on a digest shorter than 12 bytes; the
\* unwinding task drops its sender and its permit and join_all gets a
\* JoinError (line 275)
Panic(t) ==
    /\ t \in Layers /\ pc[t] = "stat"
    /\ Fail(t, "task panicked")
    /\ UNCHANGED <<tmp, final, got, pend, hits, locked, opened, startedSet, unpacked, completedSet>>

\* lines 340-346: Lock::exclusive_wait on .<blob>.lock
LockAcquire(t) ==
    /\ pc[t] = "lock"
    /\ LockFree(NameOf(t))
    /\ lockHolder' = [lockHolder EXCEPT ![NameOf(t)] = t]
    /\ locked' = locked \cup {t}
    /\ pc' = [pc EXCEPT ![t] = "restat"]
    /\ UNCHANGED <<blobRes, result, tmp, final, got, pend, faults, permits, chan,
                   hits, opened, startedSet, unpacked, completedSet, sentEarly>>

\* line 346: Error taking exclusive lock
LockError(t) ==
    /\ pc[t] = "lock"
    /\ Fail(t, "Error taking exclusive lock")
    /\ UNCHANGED <<tmp, final, got, pend, hits, locked, opened, startedSet, unpacked, completedSet>>

\* lines 348-350: the re-check under the lock
Restat(t) ==
    /\ pc[t] = "restat"
    /\ pc' = [pc EXCEPT ![t] = IF StatLocked(NameOf(t)) THEN "ret" ELSE "get_stream"]
    /\ UNCHANGED <<blobRes, result, lockHolder, tmp, final, got, pend, faults, permits, chan, histVars>>

\* line 367
RestatError(t) ==
    /\ pc[t] = "restat"
    /\ Fail(t, "restat")
    /\ UNCHANGED <<tmp, final, got, pend, hits, locked, opened, startedSet, unpacked, completedSet>>

\* line 355: client.get_blob_stream
GetBlobStream(t) ==
    /\ pc[t] = "get_stream"
    /\ opened' = opened \cup {t}
    /\ pc' = [pc EXCEPT ![t] = "create"]
    /\ UNCHANGED <<blobRes, result, lockHolder, tmp, final, got, pend, faults, permits, chan,
                   hits, locked, startedSet, unpacked, completedSet, sentEarly>>

\* line 356: Error getting docker blob response
GetBlobStreamError(t) ==
    /\ pc[t] = "get_stream"
    /\ opened' = opened \cup {t}
    /\ Fail(t, "Error getting docker blob response")
    /\ UNCHANGED <<tmp, final, got, pend, hits, locked, startedSet, unpacked, completedSet>>

\* line 357: File::create(&blob_tmp_path) creates or truncates the temp file
CreateTmp(t) ==
    /\ pc[t] = "create"
    /\ tmp' = [tmp EXCEPT ![NameOf(t)] = File({})]
    /\ pc' = [pc EXCEPT ![t] = "stream"]
    /\ UNCHANGED <<blobRes, result, lockHolder, final, got, pend, faults, permits, chan, histVars>>

\* line 358: Cannot create layer file
CreateTmpError(t) ==
    /\ pc[t] = "create"
    /\ Fail(t, "Cannot create layer file")
    /\ UNCHANGED <<tmp, final, got, pend, hits, locked, opened, startedSet, unpacked, completedSet>>

\* lines 359-363: the stream yields the next chunk and write_all hands it to
\* the file.  tokio's File::poll_write first waits for the write in flight,
\* then copies the chunk into its buffer, starts the write on the blocking
\* pool and returns Ok at once.
WriteChunk(t) ==
    /\ pc[t] = "stream"
    /\ got[t] < NumChunks
    /\ pend[t] = 0
    /\ got' = [got EXCEPT ![t] = got[t] + 1]
    /\ pend' = [pend EXCEPT ![t] = got[t] + 1]
    /\ UNCHANGED <<pc, blobRes, result, lockHolder, tmp, final, faults, permits, chan, histVars>>

\* line 362: write_all reports the failure of the previous write
WriteChunkError(t) ==
    /\ pc[t] = "stream"
    /\ got[t] < NumChunks
    /\ pend[t] = -1
    /\ pend' = [pend EXCEPT ![t] = 0]
    /\ Exit(t, Err("Cannot write blob file"))
    /\ UNCHANGED <<tmp, final, got, faults, hits, locked, opened, startedSet, unpacked, completedSet>>

\* line 360: Error fetching layer chunk
ChunkError(t) ==
    /\ pc[t] = "stream"
    /\ got[t] < NumChunks
    /\ Fail(t, "Error fetching layer chunk")
    /\ UNCHANGED <<tmp, final, got, pend, hits, locked, opened, startedSet, unpacked, completedSet>>

\* the file the descriptor opened at line 357 now names
Landing(n) == IF tmp[n].exists THEN "tmp" ELSE IF final[n].exists THEN "final" ELSE "none"

\* the blocking pool performs the write in flight; it outlives the caller
WriteLands(t) ==
    /\ pend[t] > 0
    /\ LET n == NameOf(t) IN
       /\ tmp' = IF Landing(n) = "tmp" THEN [tmp EXCEPT ![n].data = @ \cup {pend[t]}] ELSE tmp
       /\ final' = IF Landing(n) = "final" THEN [final EXCEPT ![n].data = @ \cup {pend[t]}] ELSE final
    /\ pend' = [pend EXCEPT ![t] = 0]
    /\ UNCHANGED <<pc, blobRes, result, lockHolder, got, faults, permits, chan, histVars>>

\* the write in flight fails (disk full, I/O error); the error is kept for
\* the next operation on the file
WriteFails(t) ==
    /\ pend[t] > 0
    /\ faults < MaxFaults
    /\ faults' = faults + 1
    /\ pend' = [pend EXCEPT ![t] = -1]
    /\ UNCHANGED <<pc, blobRes, result, lockHolder, tmp, final, got, permits, chan, histVars>>

\* lines 359, 364: the stream is exhausted and the temp file is renamed;
\* nothing waits for the write in flight
Rename(t) ==
    /\ pc[t] = "stream"
    /\ got[t] = NumChunks
    /\ tmp[NameOf(t)].exists
    /\ final' = [final EXCEPT ![NameOf(t)] = tmp[NameOf(t)]]
    /\ tmp' = [tmp EXCEPT ![NameOf(t)] = Absent]
    /\ pc' = [pc EXCEPT ![t] = "ret"]
    /\ UNCHANGED <<blobRes, result, lockHolder, got, pend, faults, permits, chan, histVars>>

\* line 365: Cannot rename docker blob
RenameError(t) ==
    /\ pc[t] = "stream"
    /\ got[t] = NumChunks
    /\ Fail(t, "Cannot rename docker blob")
    /\ UNCHANGED <<tmp, final, got, pend, hits, locked, opened, startedSet, unpacked, completedSet>>

\* line 373 and lines 236-241: download_blob returns Ok(blob_path)
Return(t) ==
    /\ pc[t] = "ret"
    /\ Exit(t, Ok(BlobPath(DigestOf(t))))
    /\ UNCHANGED <<tmp, final, got, pend, faults, hits, locked, opened, startedSet, unpacked, completedSet>>

\* lines 253-255: the unpack worker receives the awaited layer and starts
\* unpack_layer on the blocking pool
UnpackReceive ==
    /\ ust = "await"
    /\ LET i == AwaitedSlot IN
       /\ chan[i] = "sent"
       /\ upos' = i
       /\ startedSet' = startedSet \cup {i}
       /\ unpacked' = Append(unpacked, i)
    /\ ust' = "unpacking"
    /\ UNCHANGED <<ures, completedSet>>

RecvErrorOutcome_Ignored == Ok(<<>>)

\* lines 261-263: Err(e) => return Err("Error waiting downloaded layer: ...")
RecvErrorOutcome == Err("Error waiting downloaded layer")

\* lines 261-263: the sender was dropped without a handoff
UnpackBroken ==
    /\ ust = "await"
    /\ chan[AwaitedSlot] = "closed"
    /\ ust' = "done"
    /\ ures' = RecvErrorOutcome
    /\ UNCHANGED <<upos, startedSet, unpacked, completedSet>>

WorkerFinished_AfterAnyLayer(extracted) == TRUE

\* lines 253, 266: the for loop ends after the last channel
WorkerFinished(extracted) == extracted = Layers

\* lines 257, 266: unpack_layer returned Ok; after the last channel the worker returns Ok
UnpackOk ==
    /\ ust = "unpacking"
    /\ completedSet' = completedSet \cup {upos}
    /\ IF WorkerFinished(completedSet')
       THEN ust' = "done" /\ ures' = Ok(<<>>) /\ upos' = upos
       ELSE ust' = "await" /\ ures' = ures /\ upos' = upos + 1
    /\ UNCHANGED <<startedSet, unpacked>>

\* lines 257-259, 301: Error unpacking docker layer
UnpackError ==
    /\ ust = "unpacking"
    /\ faults < MaxFaults
    /\ faults' = faults + 1
    /\ ust' = "done"
    /\ ures' = Err("Error unpacking docker layer")
    /\ UNCHANGED <<upos, startedSet, unpacked, completedSet>>

AllDownloadsFinished_NoWait == TRUE

\* line 271: join_all(layers_futures).await completes when every task has
AllDownloadsFinished == \A i \in Layers : pc[i] = "done"

RECURSIVE ErrorsOf(_)
ErrorsOf(i) ==
    IF i = 0 THEN <<>>
    ELSE IF result[i].ok THEN ErrorsOf(i - 1) ELSE Append(ErrorsOf(i - 1), result[i].err)

\* lines 269-277: join_all(layers_futures), then the errors in layer order
JoinDownloads ==
    /\ cpc = "join_downloads"
    /\ AllDownloadsFinished
    /\ layers_errors' = ErrorsOf(NumLayers)
    /\ cpc' = "join_unpack"
    /\ UNCHANGED ret

ReturnValue_DownloadsFirst(unpack_res, errors) ==
    IF errors # <<>> THEN [kind |-> "downloads", errs |-> errors]
    ELSE IF ~unpack_res.ok THEN [kind |-> "unpack", errs |-> <<unpack_res.err>>]
    ELSE [kind |-> "Ok", errs |-> <<>>]

\* lines 279-286: `??` returns the worker's error first; layers_errors is
\* looked at only afterwards
ReturnValue(unpack_res, errors) ==
    IF ~unpack_res.ok THEN [kind |-> "unpack", errs |-> <<unpack_res.err>>]
    ELSE IF errors # <<>> THEN [kind |-> "downloads", errs |-> errors]
    ELSE [kind |-> "Ok", errs |-> <<>>]

\* lines 279-286
JoinUnpack ==
    /\ cpc = "join_unpack"
    /\ ust = "done"
    /\ ret' = ReturnValue(ures, layers_errors)
    /\ cpc' = "returned"
    /\ UNCHANGED layers_errors

----------------------------------------------------------------------------
(* Actions: parse_image *)

InitParse ==
    /\ value \in Scalars
    /\ map = NotParsed

ParseImage ==
    /\ map = NotParsed
    /\ map' = parse_image(value)
    /\ UNCHANGED value

(* Actions: DockerImage::build *)

InitBuild ==
    /\ self_registry \in Registries
    /\ self_insecure \in {{}, {TRUE}, {FALSE}}
    /\ docker_insecure_registries \in SUBSET InsecureEntries
    /\ insecure = {}
    /\ consulted = FALSE
    /\ https = "pending"

\* lines 128-133
Build ==
    /\ insecure = {}
    /\ LET flag == unwrap_or_else(self_insecure,
                       is_insecure_registry(self_registry, docker_insecure_registries))
       IN  /\ insecure' = {flag}
           /\ https' = IF ~flag THEN "ensured" ELSE "skipped"
    /\ consulted' = (self_insecure = {})
    /\ UNCHANGED <<self_registry, self_insecure, docker_insecure_registries>>

BuildIdle ==
    /\ self_registry = <<>> /\ self_insecure = {} /\ docker_insecure_registries = {}
    /\ insecure = {} /\ consulted = FALSE /\ https = "pending"

(* Actions: TarCmd::unpack *)

InitTar ==
    /\ fs = EmptyTree
    /\ before = EmptyTree
    /\ entry = NoEntry
    /\ handled = "none"
    /\ tarStatus = "running"

\* one iteration of the extractor's loop over the archive's entries
TarUnpackEntry(e, linkIsDir) ==
    /\ tarStatus = "running"
    /\ LET h == whiteout_entry_handler(e, fs, linkIsDir) IN
       /\ entry' = e
       /\ before' = fs
       /\ handled' = h.res
       /\ IF h.res = "Err"
          THEN fs' = h.fs /\ tarStatus' = "failed"
          ELSE IF h.res = "Ok(true)"
          THEN fs' = h.fs /\ tarStatus' = "running"
          ELSE LET u == UnpackNormally(e, fs) IN
               /\ fs' = u.fs
               /\ tarStatus' = IF u.ok THEN "running" ELSE "failed"

\* the archive has no more entries
TarFinish ==
    /\ tarStatus = "running"
    /\ tarStatus' = "done"
    /\ UNCHANGED <<fs, before, entry, handled>>

(* Actions: the pipeline *)

InitPipe ==
    /\ manifest \in [Layers -> Digests]
    /\ extDigest = [t \in External |-> <<"sha256", ":", "h1">>]
    /\ pc = [t \in Callers |-> IF t \in Layers THEN "acquire" ELSE "idle"]
    /\ blobRes = [t \in Callers |-> NoResult]
    /\ result = [t \in Callers |-> NoResult]
    /\ permits = DOCKER_LAYERS_DOWNLOAD_CONCURRENCY
    /\ lockHolder = [n \in BlobNames |-> None]
    /\ tmp = [n \in BlobNames |-> Absent]
    /\ final = [n \in BlobNames |-> Absent]
    /\ got = [t \in Callers |-> 0]
    /\ pend = [t \in Callers |-> 0]
    /\ faults = 0
    /\ chan = [i \in Layers |-> "open"]
    /\ upos = 1
    /\ ust = "await"
    /\ ures = NoResult
    /\ cpc = "join_downloads"
    /\ layers_errors = <<>>
    /\ ret = [kind |-> "none", errs |-> <<>>]
    /\ hits = {}
    /\ locked = {}
    /\ opened = {}
    /\ startedSet = {}
    /\ unpacked = <<>>
    /\ completedSet = {}
    /\ sentEarly = {}

\* download_blob called by NumProcs processes that share the cache directory;
\* no pipeline runs
InitCache ==
    /\ manifest = [i \in Layers |-> <<"sha256", ":", "h1">>]
    /\ extDigest \in [External -> Digests]
    /\ pc = [t \in Callers |-> IF t \in Layers THEN "idle" ELSE "stat"]
    /\ blobRes = [t \in Callers |-> NoResult]
    /\ result = [t \in Callers |-> NoResult]
    /\ permits = DOCKER_LAYERS_DOWNLOAD_CONCURRENCY
    /\ lockHolder = [n \in BlobNames |-> None]
    /\ tmp = [n \in BlobNames |-> Absent]
    /\ final = [n \in BlobNames |-> Absent]
    /\ got = [t \in Callers |-> 0]
    /\ pend = [t \in Callers |-> 0]
    /\ faults = 0
    /\ chan = [i \in Layers |-> "open"]
    /\ upos = 1
    /\ ust = "none"
    /\ ures = NoResult
    /\ cpc = "none"
    /\ layers_errors = <<>>
    /\ ret = [kind |-> "none", errs |-> <<>>]
    /\ hits = {}
    /\ locked = {}
    /\ opened = {}
    /\ startedSet = {}
    /\ unpacked = <<>>
    /\ completedSet = {}
    /\ sentEarly = {}

PipeIdle ==
    /\ manifest = <<>> /\ extDigest = <<>> /\ pc = <<>> /\ blobRes = <<>> /\ result = <<>>
    /\ permits = 0 /\ lockHolder = <<>> /\ tmp = <<>> /\ final = <<>>
    /\ got = <<>> /\ pend = <<>> /\ faults = 0 /\ chan = <<>>
    /\ upos = 0 /\ ust = "none" /\ ures = NoResult /\ cpc = "none"
    /\ layers_errors = <<>> /\ ret = [kind |-> "none", errs |-> <<>>]
    /\ hits = {} /\ locked = {} /\ opened = {}
    /\ startedSet = {} /\ unpacked = <<>> /\ completedSet = {} /\ sentEarly = {}

vars == <<parseVars, buildVars, tarVars, cacheVars, pipeVars, histVars>>

ParseIdle == value = <<>> /\ map = NotParsed
TarIdle == InitTar

NextParse ==
    ParseImage /\ UNCHANGED <<buildVars, tarVars, cacheVars, pipeVars, histVars>>

InitParseOnly == InitParse /\ BuildIdle /\ TarIdle /\ PipeIdle

NextBuild ==
    Build /\ UNCHANGED <<parseVars, tarVars, cacheVars, pipeVars, histVars>>

InitBuildOnly == InitBuild /\ ParseIdle /\ TarIdle /\ PipeIdle

SpecBuild == InitBuildOnly /\ [][NextBuild]_vars

SpecParse == InitParseOnly /\ [][NextParse]_vars

NextTar ==
    \/ \E e \in Entries, linkIsDir \in BOOLEAN :
            TarUnpackEntry(e, linkIsDir) /\ UNCHANGED <<parseVars, buildVars, cacheVars, pipeVars, histVars>>
    \/ TarFinish /\ UNCHANGED <<parseVars, buildVars, cacheVars, pipeVars, histVars>>

InitTarOnly == InitTar /\ ParseIdle /\ BuildIdle /\ PipeIdle

SpecTar == InitTarOnly /\ [][NextTar]_vars

\* what the steps of a download_blob caller leave alone
CallerFrame ==
    UNCHANGED <<manifest, extDigest, upos, ust, ures, cpc, layers_errors, ret,
                parseVars, buildVars, tarVars>>

\* what the steps of the unpack worker leave alone
WorkerFrame ==
    UNCHANGED <<manifest, extDigest, pc, blobRes, result, permits, lockHolder, tmp, final,
                got, pend, chan, cpc, layers_errors, ret,
                hits, locked, opened, sentEarly, parseVars, buildVars, tarVars>>

\* what the steps of download_and_unpack_image itself leave alone
CoordinatorFrame ==
    UNCHANGED <<manifest, extDigest, permits, chan, upos, ust, ures,
                cacheVars, histVars, parseVars, buildVars, tarVars>>

Next ==
    \/ \E t \in Layers : Acquire(t) /\ CallerFrame
    \/ \E t \in Callers : Stat(t) /\ CallerFrame
    \/ \E t \in Callers : StatError(t) /\ CallerFrame
    \/ \E t \in Layers : Panic(t) /\ CallerFrame
    \/ \E t \in Callers : LockAcquire(t) /\ CallerFrame
    \/ \E t \in Callers : LockError(t) /\ CallerFrame
    \/ \E t \in Callers : Restat(t) /\ CallerFrame
    \/ \E t \in Callers : RestatError(t) /\ CallerFrame
    \/ \E t \in Callers : GetBlobStream(t) /\ CallerFrame
    \/ \E t \in Callers : GetBlobStreamError(t) /\ CallerFrame
    \/ \E t \in Callers : CreateTmp(t) /\ CallerFrame
    \/ \E t \in Callers : CreateTmpError(t) /\ CallerFrame
    \/ \E t \in Callers : WriteChunk(t) /\ CallerFrame
    \/ \E t \in Callers : WriteChunkError(t) /\ CallerFrame
    \/ \E t \in Callers : ChunkError(t) /\ CallerFrame
    \/ \E t \in Callers : WriteLands(t) /\ CallerFrame
    \/ \E t \in Callers : WriteFails(t) /\ CallerFrame
    \/ \E t \in Callers : Rename(t) /\ CallerFrame
    \/ \E t \in Callers : RenameError(t) /\ CallerFrame
    \/ \E t \in Callers : Return(t) /\ CallerFrame
    \/ UnpackReceive /\ UNCHANGED faults /\ WorkerFrame
    \/ UnpackBroken /\ UNCHANGED faults /\ WorkerFrame
    \/ UnpackOk /\ UNCHANGED faults /\ WorkerFrame
    \/ UnpackError /\ WorkerFrame
    \/ JoinDownloads /\ CoordinatorFrame
    \/ JoinUnpack /\ CoordinatorFrame

Init == InitPipe /\ ParseIdle /\ BuildIdle /\ TarIdle

NextCache ==
    \/ \E t \in External : Stat(t) /\ CallerFrame
    \/ \E t \in External : StatError(t) /\ CallerFrame
    \/ \E t \in External : LockAcquire(t) /\ CallerFrame
    \/ \E t \in External : LockError(t) /\ CallerFrame
    \/ \E t \in External : Restat(t) /\ CallerFrame
    \/ \E t \in External : RestatError(t) /\ CallerFrame
    \/ \E t \in External : GetBlobStream(t) /\ CallerFrame
    \/ \E t \in External : GetBlobStreamError(t) /\ CallerFrame
    \/ \E t \in External : CreateTmp(t) /\ CallerFrame
    \/ \E t \in External : CreateTmpError(t) /\ CallerFrame
    \/ \E t \in External : WriteChunk(t) /\ CallerFrame
    \/ \E t \in External : WriteChunkError(t) /\ CallerFrame
    \/ \E t \in External : ChunkError(t) /\ CallerFrame
    \/ \E t \in External : WriteLands(t) /\ CallerFrame
    \/ \E t \in External : WriteFails(t) /\ CallerFrame
    \/ \E t \in External : Rename(t) /\ CallerFrame
    \/ \E t \in External : RenameError(t) /\ CallerFrame
    \/ \E t \in External : Return(t) /\ CallerFrame

InitCacheOnly == InitCache /\ ParseIdle /\ BuildIdle /\ TarIdle

SpecCache == InitCacheOnly /\ [][NextCache]_vars

\* the steps caller t takes when nothing fails, and the report of a failed
\* write: what the runtime does with a task that is ready to run
Progress(t) ==
    /\ \/ Stat(t) \/ LockAcquire(t) \/ Restat(t) \/ GetBlobStream(t) \/ CreateTmp(t)
       \/ WriteChunk(t) \/ WriteChunkError(t) \/ WriteLands(t) \/ Rename(t) \/ Return(t)
    /\ CallerFrame

\* every process is scheduled and every blob stream delivers its chunks
SpecCacheLive == SpecCache /\ \A t \in External : WF_vars(Progress(t))

Spec == Init /\ [][Next]_vars

\* the steps of download task t when nothing fails, and the report of a
\* failed write
TaskProgress(t) ==
    /\ \/ Acquire(t) \/ Stat(t) \/ LockAcquire(t) \/ Restat(t) \/ GetBlobStream(t) \/ CreateTmp(t)
       \/ WriteChunk(t) \/ WriteChunkError(t) \/ WriteLands(t) \/ Rename(t) \/ Return(t)
    /\ CallerFrame

WorkerProgress ==
    (UnpackReceive \/ UnpackBroken \/ UnpackOk) /\ UNCHANGED faults /\ WorkerFrame

CoordinatorProgress == (JoinDownloads \/ JoinUnpack) /\ CoordinatorFrame

\* the runtime polls every task that is ready, every blob stream delivers
\* its chunks and every extraction ends
SpecLive ==
    /\ Spec
    /\ \A t \in Layers : WF_vars(TaskProgress(t))
    /\ WF_vars(WorkerProgress)
    /\ WF_vars(CoordinatorProgress)

----------------------------------------------------------------------------
(* Properties of the pipeline (Spec) and of download_blob (SpecCache). *)

\* C1: extraction of layer i+1 never begins before extraction of layer i has
\* completed, whatever the order in which the downloads finish.
C1_UnpackOrder ==
    \A i \in Layers : (i > 1 /\ i \in startedSet) => (i - 1) \in completedSet

\* the handoff of layer 2 was sent while layer 1 was still downloading, and
\* layer 2 was extracted afterwards
C1_Witness ==
    /\ 2 \in sentEarly
    /\ 2 \in startedSet
    /\ 1 \in completedSet

\* C2: whenever the final blob path exists it holds the full blob.
C2_AtomicVisibility ==
    \A n \in BlobNames : final[n].exists => final[n].data = Chunks

SameBlob(t1, t2) == t1 # t2 /\ NameOf(t1) = NameOf(t2)

Active(t) == pc[t] # "idle"

\* the caller is writing the temp file: between File::create and its return,
\* or with a write still in flight
Writing(t) == pc[t] \in {"create", "stream"} \/ pend[t] > 0

\* the caller is between the acquisition of the lock and its release
InLockedSection(t) ==
    \/ pc[t] \in {"restat", "get_stream", "create", "stream"}
    \/ pc[t] = "ret" /\ t \in locked

\* the callers that asked for the blob stored under file name n
CallersOf(n) == {t \in Callers : Active(t) /\ NameOf(t) = n}

\* C3: callers of the same digest never hold the lock together; when nothing
\* fails, at most one of them opens the blob stream and writes the temp file,
\* and once all have returned exactly one has downloaded, the others found
\* the file (at the first stat or at the re-check under the lock), and all
\* returned the same final path, which exists.
C3_CacheExclusion ==
    \A n \in BlobNames :
        LET cs == CallersOf(n) IN
        /\ \A t1, t2 \in cs : t1 # t2 => ~(InLockedSection(t1) /\ InLockedSection(t2))
        /\ faults = 0 =>
            /\ Cardinality(cs \cap opened) <= 1
            /\ Cardinality({t \in cs : Writing(t)}) <= 1
            /\ (cs # {} /\ \A t \in cs : pc[t] = "done") =>
                  /\ Cardinality(cs \cap opened) = 1
                  /\ \A t \in cs : t \notin opened => t \in hits \/ t \in locked
                  /\ \A t, u \in cs : blobRes[t].ok /\ blobRes[t] = blobRes[u]
                  /\ final[n].exists

\* two processes asked for the same digest: one downloaded, the other waited
\* for the lock, re-checked and returned the same path
C3_Witness ==
    \E t1, t2 \in Callers :
        /\ SameBlob(t1, t2)
        /\ faults = 0
        /\ pc[t1] = "done" /\ pc[t2] = "done"
        /\ t1 \in opened
        /\ t2 \in locked /\ t2 \notin opened /\ t2 \notin hits
        /\ blobRes[t1].ok /\ blobRes[t2] = blobRes[t1]

\* C4: when the coordinator has returned, the download failure of every layer
\* whose download_blob failed is among the errors it returned.
C4_DownloadFailureReported ==
    cpc = "returned" =>
        \A i \in Layers :
            (~result[i].ok /\ result[i].err # "Error sending downloaded layer")
                => /\ ret.kind = "downloads"
                   /\ \E k \in 1..Len(ret.errs) : ret.errs[k] = result[i].err

\* C5: a call whose first stat finds the final path never takes the lock,
\* never calls get_blob_stream, never touches the temp file, and returns the
\* final path of its digest.
C5_CacheIdempotence ==
    \A t \in hits :
        /\ t \notin locked
        /\ t \notin opened
        /\ got[t] = 0 /\ pend[t] = 0
        /\ pc[t] \in {"ret", "done"}
        /\ pc[t] = "done" => blobRes[t] = Ok(BlobPath(DigestOf(t)))

\* a call made after another call had stored the blob returned its path
C5_Witness ==
    \E t \in hits :
        /\ pc[t] = "done"
        /\ blobRes[t] = Ok(BlobPath(DigestOf(t)))
        /\ \E u \in opened : SameBlob(t, u) /\ blobRes[u] = blobRes[t]

\* download tasks inside the permit-guarded section (lines 234-243)
InPermitSection == {t \in Layers : pc[t] \notin {"acquire", "done", "idle"}}

\* C13: at most DOCKER_LAYERS_DOWNLOAD_CONCURRENCY (2) download tasks are
\* inside the permit-guarded section (download_blob, the wait for the
\* per-blob lock included); every other download task waits for a permit or
\* has finished.
C13_BoundedParallelism ==
    /\ Cardinality(InPermitSection) <= 2
    /\ Cardinality(InPermitSection) + permits = DOCKER_LAYERS_DOWNLOAD_CONCURRENCY
    /\ \A t \in Layers \ InPermitSection : pc[t] \in {"acquire", "done"}

\* two tasks hold the permits, one of them blocked on the per-blob lock the
\* other holds, while a third task waits for a permit
C13_Witness ==
    /\ Cardinality(InPermitSection) = 2
    /\ \E t \in InPermitSection : pc[t] = "lock" /\ ~LockFree(NameOf(t))
    /\ \E t \in Layers : pc[t] = "acquire"

\* the download task of layer k ended with an error
TaskFailed(k) == pc[k] = "done" /\ ~result[k].ok

\* download_blob of layer k returned an error
BlobFailed(k) == pc[k] = "done" /\ ~blobRes[k].ok

UnpackFailed == ~ures.ok /\ ures.err = "Error unpacking docker layer"

FirstFailed(k) == TaskFailed(k) /\ \A j \in 1..(k - 1) : ~TaskFailed(j)

\* C14 as stated: once the pipeline has returned and no extraction failed,
\* for every layer k whose download failed, every layer before k whose
\* download task succeeded has been extracted.
C14_EarlierLayersExtracted ==
    (cpc = "returned" /\ ~UnpackFailed) =>
        \A k \in Layers : BlobFailed(k) =>
            \A j \in 1..(k - 1) : (pc[j] = "done" /\ result[j].ok) => j \in completedSet

\* C14 amended: if the download task of layer k fails its handoff is never
\* sent and no layer with index >= k is ever extracted; when the worker ends
\* without an extraction failure it has aborted with a broken channel at the
\* slot of the FIRST failed layer, having extracted exactly the layers before
\* it; nothing removes an extracted layer from the destination.
C14_FailureStopsExtraction ==
    \A k \in Layers :
        /\ TaskFailed(k) =>
              /\ chan[k] = "closed"
              /\ \A j \in k..NumLayers : j \notin startedSet
        /\ (FirstFailed(k) /\ ust = "done" /\ ~UnpackFailed) =>
              /\ ures = Err("Error waiting downloaded layer")
              /\ upos = k
              /\ completedSet = 1..(k - 1)
              /\ startedSet = completedSet

\* layer 2's download_blob failed after layer 1 was extracted; the worker
\* aborted at slot 2 and layer 3, downloaded, was never extracted
C14_Witness ==
    /\ BlobFailed(2) /\ FirstFailed(2)
    /\ ust = "done" /\ upos = 2
    /\ completedSet = {1}
    /\ pc[3] = "done" /\ blobRes[3].ok

\* C15: whenever the unpack worker finished with an error, the pipeline
\* returns that error whatever download errors were accumulated; the
\* accumulated download errors are returned only when the worker succeeded.
C15_UnpackErrorPrecedence ==
    cpc = "returned" =>
        /\ ~ures.ok => ret = [kind |-> "unpack", errs |-> <<ures.err>>]
        /\ ret.kind = "downloads" => (ures.ok /\ ret.errs = layers_errors)

\* an extraction failed and a download error had been accumulated: the
\* extraction error was returned
C15_Witness ==
    /\ cpc = "returned"
    /\ UnpackFailed
    /\ layers_errors # <<>>
    /\ ret = [kind |-> "unpack", errs |-> <<"Error unpacking docker layer">>]

LockNotHeldAfterReturn ==
    \A t \in Callers : pc[t] = "done" => \A n \in BlobNames : lockHolder[n] # t

\* the holder of the lock that finds no final file goes on to download it
RecheckThenDownload ==
    \A t \in Callers :
        (pc[t] = "restat" /\ ~final[NameOf(t)].exists /\ pc'[t] # "restat")
            => (pc'[t] = "get_stream" \/ (pc'[t] = "done" /\ ~blobRes'[t].ok))

BlockedEventuallyAcquires ==
    \A t \in External :
        (pc[t] = "lock") ~>
            (t \in locked \/ (pc[t] = "done" /\ blobRes[t] = Err("Error taking exclusive lock")))

\* C16: a caller of download_blob that acquired the per-blob lock no longer
\* holds it once it has returned, with success or with any error; a process
\* blocked on that lock therefore eventually acquires it, re-checks the
\* final path and, when the file is still missing because the first holder
\* failed, downloads the blob itself.
C16_LockReleased ==
    /\ []LockNotHeldAfterReturn
    /\ [][RecheckThenDownload]_vars
    /\ BlockedEventuallyAcquires

\* one process failed after it had opened the blob stream under the lock;
\* another process of the same blob then took the lock, downloaded the blob
\* itself and returned its path
C16_Witness ==
    \E t1, t2 \in External :
        /\ SameBlob(t1, t2)
        /\ t1 \in locked /\ t1 \in opened /\ pc[t1] = "done" /\ ~blobRes[t1].ok
        /\ t2 \in locked /\ t2 \in opened /\ pc[t2] = "done" /\ blobRes[t2].ok
        /\ lockHolder[NameOf(t1)] = None

\* C17: the coordinator has the result of every download task before it
\* joins the unpack worker, so it never returns while a download task is
\* still running; downloads are not cancelled when the worker aborts: when
\* the error is returned, download_blob of every layer has run to its end.
C17_JoinOrdering ==
    /\ cpc \in {"join_unpack", "returned"} =>
          \A i \in Layers : pc[i] = "done" /\ blobRes[i] # NoResult
    /\ cpc = "returned" => ust = "done"

\* the worker aborted at slot 1; layer 3 nevertheless fetched its blob to the
\* end and only then found its receiver gone; the coordinator returned the
\* worker's error after that
C17_Witness ==
    /\ cpc = "returned" /\ ret.kind = "unpack"
    /\ upos = 1 /\ completedSet = {}
    /\ 3 \in opened /\ blobRes[3].ok
    /\ result[3] = Err("Error sending downloaded layer")

\* some task, the worker or the coordinator can take a step
CanStep ==
    \/ \E t \in Layers : ENABLED TaskProgress(t)
    \/ ENABLED WorkerProgress
    \/ ENABLED CoordinatorProgress

C19_OkMeansComplete ==
    /\ ret.kind = "Ok" =>
          /\ unpacked = [i \in 1..NumLayers |-> i]
          /\ completedSet = Layers
          /\ \A i \in Layers : result[i].ok
    /\ \A k \in 1..Len(unpacked) :
          LET i == unpacked[k] IN
          /\ blobRes[i] = Ok(BlobPath(manifest[i]))
          /\ final[BlobFileName(manifest[i])].exists
          /\ chan[i] = "sent"

\* Ok was returned after the three layers were extracted in order although
\* a later layer had been handed off before an earlier one was downloaded
C19_Witness ==
    /\ cpc = "returned" /\ ret.kind = "Ok"
    /\ unpacked = <<1, 2, 3>>
    /\ sentEarly # {}

\* C20: once download_and_unpack_image has returned, if any download task
\* ended with an error (download_blob error, failed handoff send or panic)
\* the unpack worker ended with an error too; the accumulated list of
\* download errors is never what the function returns.
C20_FailureCoupling ==
    /\ cpc = "returned" =>
          ((\E i \in Layers : ~result[i].ok) => ~ures.ok)
    /\ (cpc \in {"join_unpack", "returned"} /\ ust = "done" /\ layers_errors # <<>>)
          => ~ures.ok
    /\ ret.kind # "downloads"

\* a download task panicked, another failed at the handoff; the worker
\* ended with the broken channel and its error was returned
C20_Witness ==
    /\ cpc = "returned"
    /\ \E i \in Layers : result[i] = Err("task panicked")
    /\ \E i \in Layers : result[i] = Err("Error sending downloaded layer")
    /\ ures = Err("Error waiting downloaded layer")
    /\ Len(layers_errors) >= 2
    /\ ret.kind = "unpack"

----------------------------------------------------------------------------
(* Properties of whiteout_entry_handler, checked under SpecTar.  `entry` is *)
(* the entry processed last, `before` the tree it was applied to.           *)

IsMarkerName(n) == Head(n) = WH

Below(dir) == {q \in Paths : IsPrefix(dir, q) /\ q # dir}

RegularAt(p) == entry = [path |-> p, type |-> "Regular"]

\* the handler emptied `dir`, touched nothing else and consumed the entry
Emptied(dir) ==
    /\ handled = "Ok(true)"
    /\ tarStatus # "failed"
    /\ \A q \in Paths : fs[q] = IF q \in Below(dir) THEN "absent" ELSE before[q]

\* C6 as stated: the regular-file entry a/.wh..opq empties directory a and
\* the extraction goes on.
C6_OpaqueAsStated ==
    RegularAt(<<NameA, NameWhOpq>>) => Emptied(<<NameA>>)

\* C6 amended: the regular-file entry a/.wh..wh..opq (the name whose .wh.
\* prefix stripped is .wh..opq) empties directory a, leaves everything outside
\* a unchanged, and is consumed, so the entries after it are applied to the
\* emptied directory.
C6_OpaqueWhiteout ==
    RegularAt(<<NameA, NameWhWhOpq>>) => Emptied(<<NameA>>)

\* a/x/c and a/y existed, the opaque marker a/.wh..wh..opq emptied a
C6_Witness ==
    /\ RegularAt(<<NameA, NameWhWhOpq>>)
    /\ before[<<NameA, NameX, NameC>>] = "file"
    /\ before[<<NameA, NameY>>] = "file"
    /\ \A q \in Below(<<NameA>>) : fs[q] = "absent"
    /\ fs[<<NameA>>] = "dir"

\* the regular-file whiteout entries other than the opaque marker, and the
\* path each one names
IsPlainWhiteout(e) ==
    /\ e.type = "Regular"
    /\ IsMarkerName(FileNameOf(e.path))
    /\ Tail(FileNameOf(e.path)) # NameWhOpq

TargetOf(e) == Parent(e.path) \o <<Tail(FileNameOf(e.path))>>

\* C7: a regular-file entry a/.wh.b whose target a/b does not exist is
\* handled successfully: the destination is unchanged, the marker is consumed
\* and the extraction continues.
C7_MissingTargetOk ==
    (IsPlainWhiteout(entry) /\ Kind(before, TargetOf(entry)) = "absent")
        => (handled = "Ok(true)" /\ fs = before /\ tarStatus # "failed")

\* C8: a regular-file entry a/.wh.b (other than the opaque marker) whose
\* target a/b exists deletes a/b, with everything below it when it is a
\* directory, and leaves every other path unchanged.
C8_WhiteoutRemoval ==
    (IsPlainWhiteout(entry) /\ Kind(before, TargetOf(entry)) # "absent")
        => /\ handled = "Ok(true)"
           /\ tarStatus # "failed"
           /\ \A q \in Paths :
                fs[q] = IF IsPrefix(TargetOf(entry), q) THEN "absent" ELSE before[q]

\* a/x was a directory holding a/x/c, a/y a file: a/.wh.x removed a/x
\* recursively and kept a/y
C8_Witness ==
    /\ RegularAt(<<NameA, NameWhX>>)
    /\ before[<<NameA, NameX>>] = "dir"
    /\ before[<<NameA, NameX, NameC>>] = "file"
    /\ before[<<NameA, NameY>>] = "file"
    /\ fs[<<NameA, NameX>>] = "absent"
    /\ fs[<<NameA, NameX, NameC>>] = "absent"
    /\ fs[<<NameA, NameY>>] = "file"

\* C9 as stated: no path whose file name begins with .wh. exists in the
\* destination, whatever the type of the entries carrying such names.
C9_NoMarkerAnyType ==
    \A p \in Paths : IsMarkerName(FileNameOf(p)) => fs[p] = "absent"

\* C9 amended: no regular-file entry whose name begins with .wh. is
\* materialized: a path with such a name exists only as the directory or
\* symlink a non-regular entry created.
C9_NoRegularMarker ==
    \A p \in Paths : IsMarkerName(FileNameOf(p)) => fs[p] # "file"

\* the archive ended after a regular marker entry was consumed
C9_Witness ==
    /\ tarStatus = "done"
    /\ entry.type = "Regular"
    /\ IsMarkerName(FileNameOf(entry.path))
    /\ handled = "Ok(true)"
    /\ fs[<<NameA, NameY>>] = "file"

----------------------------------------------------------------------------
(* Properties of parse_image, checked under SpecParse. *)

NoSlash(s) == ~Contains(s, "/")
NoColon(s) == ~Contains(s, ":")

\* every way of reading `value` as {registry}/{image}:{tag} with the registry
\* drawn from hosts satisfying okHost yields exactly those three fields
RoundTrip(okHost(_)) ==
    map # NotParsed =>
        \A p, q \in 1..Len(value) :
            LET registry == SubSeq(value, 1, p - 1)
                image    == SubSeq(value, p + 1, q - 1)
                tag      == SubSeq(value, q + 1, Len(value))
            IN  ( /\ p < q /\ value[p] = "/" /\ value[q] = ":"
                  /\ registry # <<>> /\ image # <<>> /\ tag # <<>>
                  /\ NoSlash(registry) /\ NoColon(tag)
                  /\ okHost(registry) )
                => map = [registry |-> registry, image |-> image, tag |-> tag]

AnyHost(registry) == TRUE

DottedHost(registry) ==
    registry = <<"localhost">> \/ Contains(registry, ".") \/ Contains(registry, ":")

\* C10 as stated: for every registry host, image path and tag, parsing
\* {registry}/{image}:{tag} yields exactly those three fields.
C10_RoundTripAnyHost == RoundTrip(AnyHost)

\* C10 amended: the round trip holds for every registry host that equals
\* localhost or contains . or : (and has no /), every image path and every
\* tag without a colon.
C10_RoundTrip == RoundTrip(DottedHost)

\* localhost/a/a:a was parsed into registry localhost, image a/a, tag a
C10_Witness ==
    /\ value = <<"localhost", "/", "a", "/", "a", ":", "a">>
    /\ map = [registry |-> <<"localhost">>, image |-> <<"a", "/", "a">>, tag |-> <<"a">>]

\* the positions of the first "/" and of the last ":" of a string (0: none)
FirstSlash(s) ==
    IF NoSlash(s) THEN 0
    ELSE CHOOSE k \in 1..Len(s) : s[k] = "/" /\ NoSlash(SubSeq(s, 1, k - 1))

LastColon(s) ==
    IF NoColon(s) THEN 0
    ELSE CHOOSE k \in 1..Len(s) : s[k] = ":" /\ NoColon(SubSeq(s, k + 1, Len(s)))

\* C11: the part before the first / is the registry exactly when it equals
\* localhost or contains . or :, otherwise the whole string is the image
\* name and no registry is set; library/ is prepended exactly when no
\* registry was detected and the image name without its tag (cut at the last
\* :) has no /.  a gives library/a with default registry and tag,
\* localhost/a gives registry localhost and image a, a/a gives image a/a
\* with the default registry.
C11_RegistryNamespace ==
    map # NotParsed =>
        LET i        == FirstSlash(value)
            left     == SubSeq(value, 1, i - 1)
            detected == /\ i > 0
                        /\ (left = <<"localhost">> \/ ~NoColon(left) \/ Contains(left, "."))
            name     == IF detected THEN SubSeq(value, i + 1, Len(value)) ELSE value
            j        == LastColon(name)
            untagged == IF j > 0 THEN SubSeq(name, 1, j - 1) ELSE name
        IN  /\ ("registry" \in DOMAIN map) <=> detected
            /\ detected => map.registry = left
            /\ map.image = IF ~detected /\ NoSlash(untagged)
                           THEN <<"library", "/">> \o untagged
                           ELSE untagged
            /\ value = <<"a">> => map = [image |-> <<"library", "/", "a">>]
            /\ value = <<"localhost", "/", "a">>
                   => map = [registry |-> <<"localhost">>, image |-> <<"a">>]
            /\ value = <<"a", "/", "a">> => map = [image |-> <<"a", "/", "a">>]

\* localhost/a was parsed: a registry was detected and a one-component image
\* name was left without the library/ namespace
C11_Witness ==
    /\ value = <<"localhost", "/", "a">>
    /\ map # NotParsed
    /\ "registry" \in DOMAIN map
    /\ map.image = <<"a">>

----------------------------------------------------------------------------
(* Properties of DockerImage::build, checked under SpecBuild. *)

Ports == {"5000"}

\* the registry string without a trailing :port
StripPort(r) ==
    IF Len(r) >= 2 /\ r[Len(r) - 1] = ":" /\ r[Len(r)] \in Ports
    THEN SubSeq(r, 1, Len(r) - 2)
    ELSE r

\* C12: when the insecure field is unset, the registry is treated as insecure
\* exactly when its host with any :port suffix removed is in the global
\* insecure-registry set; when the field is set, its value is used and the
\* global set is not consulted.
C12_InsecureResolution ==
    insecure # {} =>
        IF self_insecure = {}
        THEN insecure = {StripPort(self_registry) \in docker_insecure_registries}
        ELSE insecure = self_insecure /\ ~consulted

====
